---- MODULE Spec2Model ----
(***************************************************************************)
(* Model of src/app.py: the module-level load loop that turns every CSV    *)
(* of models_dir into a daily, interpolated frame (models_data), the       *)
(* derived slider date list, and the Dash callback update_graph.           *)
(*                                                                         *)
(* The directory name of line 18 is taken as written; its files are the    *)
(* input.  Dates are day ordinals.  A cell of a numeric column is <<>>     *)
(* (NaN) or <<v>>; numbers are floats in the program and are kept here     *)
(* exactly, as integers in units of 1/Scale, so that every linear          *)
(* interpolation the bounds allow is exact.  Names are sequences of string *)
(* tokens, so that str.replace and str.endswith act on them.               *)
(***************************************************************************)
EXTENDS Integers, Sequences, FiniteSets, TLC

VARIABLES pc, model_files, file, df, models_data, date_list,
          selected_models, slider_range, fig

vars == <<pc, model_files, file, df, models_data, date_list,
          selected_models, slider_range, fig>>

----------------------------------------------------------------------------
(* Bounds of the explored inputs *)

\* rows of one CSV file, startup specification
MaxRows == 2
\* largest day ordinal of a CSV row, startup specification
MaxDay == 3
\* rows of the CSV file, dashboard on one model
GMaxRows == 1
\* largest day ordinal of a CSV row, dashboard specifications
GMaxDay == 1
\* numeric columns of one CSV file, dashboard specifications
MaxCols == 2
\* length of the checklist value handed to the callback
MaxSel == 2

\* numbers written in the CSV cells, startup specification
LoadValues == {0, 6}
\* numbers written in the CSV cells, dashboard on one model
GraphValues == {-1, 1999, 2000}
\* numbers written in the CSV cells, dashboard on two models
PairValues == {2000}

\* a directory with one model file
LoadDir == { <<"results-csv_", "m1", ".csv">>, <<"notes", ".txt">> }
\* a directory with two model files
GraphDir == { <<"results-csv_", "m1", ".csv">>, <<"m2", ".csv">>,
              <<"notes", ".txt">> }
\* a directory without any CSV file
EmptyDir == { <<"notes", ".txt">> }

----------------------------------------------------------------------------
(* Numbers *)

Max2(a, b) == IF a >= b THEN a ELSE b

RECURSIVE Gcd(_, _)
Gcd(a, b) == IF b = 0 THEN a ELSE Gcd(b, a % b)

RECURSIVE LcmUpTo(_)
LcmUpTo(n) == IF n <= 1 THEN 1
              ELSE LET l == LcmUpTo(n - 1) IN (l * n) \div Gcd(l, n)

\* one unit of the program's numbers; a merged frame has fewer than
\* MaxDay + MaxRows rows, so every interpolation weight k/n has n below it
Scale == LcmUpTo(Max2(MaxDay + MaxRows, GMaxDay + GMaxRows))

NaN == <<>>
IsNaN(c) == c = <<>>
Num(v) == <<v>>
Val(c) == c[1]

----------------------------------------------------------------------------
(* Names *)

NumericColumns == {"groundtruth", "predictions", "predicted values"}

\* str.replace(tok, ""), on a token sequence
RECURSIVE Remove(_, _)
Remove(name, tok) ==
    IF name = <<>> THEN <<>>
    ELSE IF Head(name) = tok THEN Remove(Tail(name), tok)
    ELSE <<Head(name)>> \o Remove(Tail(name), tok)

EndsWith(name, tok) == name # <<>> /\ name[Len(name)] = tok

ModelName(f) == Remove(f, ".csv")

DisplayName(model) == Remove(Remove(model, "results-csv_"), "result-csv_")

\* os.listdir returns the entries in arbitrary order
RECURSIVE Listings(_)
Listings(S) ==
    IF S = {} THEN {<<>>}
    ELSE UNION { { <<f>> \o l : l \in Listings(S \ {f}) } : f \in S }

OnlyCsv(listing) == LET IsCsv(f) == EndsWith(f, ".csv")
                    IN SelectSeq(listing, IsCsv)

----------------------------------------------------------------------------
(* CSV files: frames as read by pd.read_csv, dates parsed *)

RowsOver(cols, days, cells) ==
    { [c \in cols \cup {"dates"} |-> IF c = "dates" THEN d ELSE f[c]] :
        d \in days, f \in [cols -> cells] }

\* the column sets a CSV file can have besides "dates"
Schemas(maxCols) == { cols \in SUBSET NumericColumns : Cardinality(cols) <= maxCols }

Cells(values) == {NaN} \cup { Num(v) : v \in values }

\* float parsing of the numeric cells
ParseCell(c) == IF IsNaN(c) THEN NaN ELSE Num(Val(c) * Scale)

ReadFrame(csv) ==
    [columns |-> csv.columns,
     rows |-> [i \in 1..Len(csv.rows) |->
                 [c \in DOMAIN csv.rows[i] |->
                    IF c = "dates" THEN csv.rows[i][c]
                    ELSE ParseCell(csv.rows[i][c])]]]

NoFrame == [columns |-> {}, rows |-> <<>>]

----------------------------------------------------------------------------
(* The load loop *)

Dates(rows) == { rows[i]["dates"] : i \in 1..Len(rows) }

MinOf(S) == CHOOSE x \in S : \A y \in S : x <= y
MaxOf(S) == CHOOSE x \in S : \A y \in S : x >= y

\* df.sort_values("dates"): the rows in date order; the default sort kind
\* does not promise the order of rows with equal dates
SortValues(rows) ==
    { [i \in 1..Len(rows) |-> rows[p[i]]] :
        p \in { q \in Permutations(1..Len(rows)) :
                  \A i, j \in 1..Len(rows) :
                     i < j => rows[q[i]]["dates"] <= rows[q[j]]["dates"] } }

\* pd.date_range(start, end, freq="D")
DateRange(start, end) == [i \in 1..(end - start + 1) |-> start + i - 1]

NaNRow(cols, d) == [c \in cols \cup {"dates"} |-> IF c = "dates" THEN d ELSE NaN]

\* pd.merge(df_full, df, on="dates", how="left"): for every day of the range,
\* in order, the rows of df of that day in df's order, or one row of NaN
RECURSIVE Merge(_, _, _)
Merge(range, rows, cols) ==
    IF range = <<>> THEN <<>>
    ELSE LET d == Head(range)
             OnDay(r) == r["dates"] = d
             hit == SelectSeq(rows, OnDay)
         IN (IF hit = <<>> THEN <<NaNRow(cols, d)>> ELSE hit)
            \o Merge(Tail(range), rows, cols)

Known(col, i) == ~IsNaN(col[i])

\* a fill that repeats the last known value instead of drawing the line
InterpolateRepeat(col) ==
    [m \in 1..Len(col) |->
       IF Known(col, m) THEN col[m]
       ELSE LET before == { i \in 1..(m - 1) : Known(col, i) }
            IN IF before = {} THEN NaN ELSE col[MaxOf(before)]]

\* Series.interpolate(method="linear"): rows count as equally spaced; a NaN
\* after a known value takes the line to the next known value or, when no
\* known value follows, the last known value; a NaN before the first known
\* value stays
InterpolateLinear(col) ==
    [m \in 1..Len(col) |->
       IF Known(col, m) THEN col[m]
       ELSE LET before == { i \in 1..(m - 1) : Known(col, i) }
                after == { j \in (m + 1)..Len(col) : Known(col, j) }
            IN IF before = {} THEN NaN
               ELSE LET i == MaxOf(before)
                    IN IF after = {} THEN col[i]
                       ELSE LET j == MinOf(after)
                            IN Num((Val(col[i]) * (j - m) + Val(col[j]) * (m - i))
                                    \div (j - i))]

Column(rows, c) == [i \in 1..Len(rows) |-> rows[i][c]]

SetColumn(rows, c, col) ==
    [i \in 1..Len(rows) |-> [rows[i] EXCEPT ![c] = col[i]]]

InterpolateColumn(rows, c) == SetColumn(rows, c, InterpolateLinear(Column(rows, c)))

\* the if / if-elif chain of the loop body
InterpolateFrame(rows, cols) ==
    LET g == IF "groundtruth" \in cols
             THEN InterpolateColumn(rows, "groundtruth") ELSE rows
    IN IF "predictions" \in cols THEN InterpolateColumn(g, "predictions")
       ELSE IF "predicted values" \in cols
            THEN InterpolateColumn(g, "predicted values")
            ELSE g

\* df_interpolated of a frame whose rows are already sorted
DfInterpolated(sorted, cols) ==
    [columns |-> cols,
     rows |-> InterpolateFrame(
                 Merge(DateRange(MinOf(Dates(sorted)), MaxOf(Dates(sorted))),
                       sorted, cols),
                 cols)]

----------------------------------------------------------------------------
(* Startup *)

EmptyFigure == [data |-> <<>>, layout |-> [title |-> <<>>, yaxis |-> <<>>]]

InitIn(dirs) ==
    /\ model_files \in UNION { { OnlyCsv(l) : l \in Listings(d) } : d \in dirs }
    /\ pc = IF model_files = <<>> THEN "crashed" ELSE "loading"
    /\ file = 0
    /\ df = NoFrame
    /\ models_data = <<>>
    /\ date_list = <<>>
    /\ selected_models = <<>>
    /\ slider_range = <<0, 0>>
    /\ fig = EmptyFigure

\* one iteration of the load loop: the file holds any frame of at most
\* maxCols numeric columns and maxRows rows over the given days and values;
\* a file without rows has no min/max date and pd.date_range raises
LoadFile(maxCols, maxRows, maxDay, values) ==
    /\ pc = "loading"
    /\ file < Len(model_files)
    /\ file' = file + 1
    /\ \E cols \in Schemas(maxCols), n \in 0..maxRows :
          \E rs \in [1..n -> RowsOver(cols, 0..maxDay, Cells(values))] :
             LET read == ReadFrame([columns |-> cols, rows |-> rs])
             IN IF read.rows = <<>>
                THEN /\ df' = read
                     /\ pc' = "crashed"
                     /\ UNCHANGED models_data
                ELSE /\ \E sorted \in SortValues(read.rows) :
                          /\ df' = [read EXCEPT !.rows = sorted]
                          /\ models_data' = (ModelName(model_files[file'])
                                               :> DfInterpolated(sorted, cols))
                                            @@ models_data
                     /\ pc' = "loading"
    /\ UNCHANGED <<model_files, date_list, selected_models, slider_range, fig>>

AllDates == UNION { Dates(models_data[m].rows) : m \in DOMAIN models_data }

\* date_list is computed and the app is served
Publish ==
    /\ pc = "loading"
    /\ file = Len(model_files)
    /\ date_list' = DateRange(MinOf(AllDates), MaxOf(AllDates))
    /\ pc' = "serving"
    /\ UNCHANGED <<model_files, file, df, models_data, selected_models,
                   slider_range, fig>>

----------------------------------------------------------------------------
(* update_graph *)

\* list[i] of Python: a negative index counts from the end
IndexOk(list, i) == -Len(list) <= i /\ i < Len(list)
ListItem(list, i) == IF i >= 0 THEN list[i + 1] ELSE list[Len(list) + i + 1]

\* df[(df["dates"] >= start_date) & (df["dates"] <= end_date)]
Filtered(frame, start_date, end_date) ==
    LET InWindow(r) == r["dates"] >= start_date /\ r["dates"] <= end_date
    IN [columns |-> frame.columns, rows |-> SelectSeq(frame.rows, InWindow)]

\* Series.dropna().tolist()
DropNa(col) == LET IsKnown(c) == ~IsNaN(c)
               IN [i \in 1..Len(SelectSeq(col, IsKnown)) |->
                     Val(SelectSeq(col, IsKnown)[i])]

Scatter(df_filtered, c, name, dash) ==
    [x |-> Column(df_filtered.rows, "dates"),
     y |-> Column(df_filtered.rows, c),
     name |-> name,
     dash |-> dash]

\* the trace added for every model with the column, the flag forgotten
PlotsGroundTruthUnflagged(ground_truth_plotted, df_filtered) ==
    "groundtruth" \in df_filtered.columns

\* the condition under which the "Actual Values" trace is added
PlotsGroundTruth(ground_truth_plotted, df_filtered) ==
    ~ground_truth_plotted /\ "groundtruth" \in df_filtered.columns

\* pred_col when only the first column name is looked for
PredColFirstAlias(columns) ==
    IF "predictions" \in columns THEN <<"predictions">> ELSE <<>>

\* pred_col; <<>> stands for None
PredCol(columns) ==
    IF "predictions" \in columns THEN <<"predictions">>
    ELSE IF "predicted values" \in columns THEN <<"predicted values">>
    ELSE <<>>

\* one iteration of the loop over selected_models
LoopBody(st, model, start_date, end_date) ==
    LET df_filtered == Filtered(models_data[model], start_date, end_date)
        gt == PlotsGroundTruth(st.ground_truth_plotted, df_filtered)
        st1 == IF gt
               THEN [all_values |-> st.all_values
                                    \o DropNa(Column(df_filtered.rows, "groundtruth")),
                     data |-> Append(st.data,
                                     Scatter(df_filtered, "groundtruth",
                                             <<"Actual Values">>, "solid")),
                     ground_truth_plotted |-> TRUE]
               ELSE st
        pred_col == PredCol(df_filtered.columns)
    IN IF pred_col # <<>>
       THEN [all_values |-> st1.all_values
                            \o DropNa(Column(df_filtered.rows, pred_col[1])),
             data |-> Append(st1.data,
                             Scatter(df_filtered, pred_col[1],
                                     DisplayName(model), "dash")),
             ground_truth_plotted |-> st1.ground_truth_plotted]
       ELSE st1

RECURSIVE Loop(_, _, _, _)
Loop(st, models, start_date, end_date) ==
    IF models = <<>> THEN st
    ELSE Loop(LoopBody(st, Head(models), start_date, end_date),
              Tail(models), start_date, end_date)

SeqMax(s) == MaxOf({ s[i] : i \in 1..Len(s) })

\* y-axis increments
TickUnit == 2000

\* the axis end rounded up to a multiple of 2000, not past it
YMaxCeiling(all_values) ==
    ((SeqMax(all_values) + TickUnit * Scale - 1) \div (TickUnit * Scale))
    * (TickUnit * Scale)

\* ((max(all_values) // 2000) + 1) * 2000, in units of 1/Scale
YMax(all_values) ==
    ((SeqMax(all_values) \div (TickUnit * Scale)) + 1) * (TickUnit * Scale)

\* the layout set on every call, with one tick when nothing is plotted
LayoutUnguarded(all_values, start_date, end_date) ==
    [title |-> <<[kind |-> "window", from |-> start_date, to |-> end_date]>>,
     yaxis |-> <<[range |-> <<0, IF all_values # <<>> THEN YMax(all_values)
                                 ELSE TickUnit * Scale>>,
                  dtick |-> TickUnit * Scale]>>]

\* the layout set when all_values is not empty; otherwise none is set
Layout(all_values, start_date, end_date) ==
    IF all_values # <<>>
    THEN [title |-> <<[kind |-> "window", from |-> start_date, to |-> end_date]>>,
          yaxis |-> <<[range |-> <<0, YMax(all_values)>>,
                       dtick |-> TickUnit * Scale]>>]
    ELSE [title |-> <<>>, yaxis |-> <<>>]

\* the figure of the except branch
ErrorFigure(e) ==
    [data |-> <<>>,
     layout |-> [title |-> <<[kind |-> "error", message |-> e]>>, yaxis |-> <<>>]]

update_graph(models, range) ==
    IF ~IndexOk(date_list, range[1]) \/ ~IndexOk(date_list, range[2])
    THEN ErrorFigure("list index out of range")
    ELSE LET start_date == ListItem(date_list, range[1])
             end_date == ListItem(date_list, range[2])
             st == Loop([all_values |-> <<>>, data |-> <<>>,
                         ground_truth_plotted |-> FALSE],
                        models, start_date, end_date)
         IN [data |-> st.data,
             layout |-> Layout(st.all_values, start_date, end_date)]

\* sequences over S of length at most n
SeqsUpTo(S, n) == UNION { [1..k -> S] : k \in 0..n }

\* the slider positions explored: every position of date_list, one below
\* zero and one past the end
SliderValues == (-1)..Len(date_list)

\* Dash calls update_graph with the values of the checklist and the slider;
\* the state is the one at the return statement
UpdateGraph ==
    /\ pc = "serving"
    /\ \E models \in SeqsUpTo(DOMAIN models_data, MaxSel),
          lo \in SliderValues, hi \in SliderValues :
          /\ selected_models' = models
          /\ slider_range' = <<lo, hi>>
          /\ fig' = update_graph(models, <<lo, hi>>)
    /\ pc' = "rendered"
    /\ UNCHANGED <<model_files, file, df, models_data, date_list>>

\* the figure is handed to Dash; the arguments and locals of the call are gone
Return ==
    /\ pc = "rendered"
    /\ selected_models' = <<>>
    /\ slider_range' = <<0, 0>>
    /\ fig' = EmptyFigure
    /\ pc' = "serving"
    /\ UNCHANGED <<model_files, file, df, models_data, date_list>>

Startup(maxCols, maxRows, maxDay, values) ==
    \/ LoadFile(maxCols, maxRows, maxDay, values)
    \/ Publish

\* startup on one model file of at most two numeric columns
InitLoad == InitIn({LoadDir, EmptyDir})

NextLoad == Startup(2, MaxRows, MaxDay, LoadValues)

SpecLoad == InitLoad /\ [][NextLoad]_vars

Dashboard ==
    \/ UpdateGraph
    \/ Return

\* one model file, the dashboard on it
InitSingle == InitIn({LoadDir})

NextSingle == Startup(MaxCols, GMaxRows, GMaxDay, GraphValues) \/ Dashboard

SpecSingle == InitSingle /\ [][NextSingle]_vars

\* two model files of one row each, the dashboard on them
Init == InitIn({GraphDir})

Next == Startup(MaxCols, 1, GMaxDay, PairValues) \/ Dashboard

Spec == Init /\ [][Next]_vars

----------------------------------------------------------------------------
(* Properties of the load loop, read off the frame just stored *)

\* the loop body has run for model_files[file]: df is that file's sorted frame
Stored == file >= 1 /\ pc \in {"loading", "serving", "rendered"}

CurrentModel == ModelName(model_files[file])

Canonical == models_data[CurrentModel].rows

\* groundtruth and the predicted-value column of the record
SignalColumns(cols) ==
    (cols \cap {"groundtruth"})
    \cup (IF "predictions" \in cols THEN {"predictions"}
          ELSE cols \cap {"predicted values"})

KnownDates(c) == { df.rows[i]["dates"] : i \in { k \in 1..Len(df.rows) : ~IsNaN(df.rows[k][c]) } }

DistinctDates == Cardinality(Dates(df.rows)) = Len(df.rows)

\* the cell of the row of df dated d, for a record of distinct dates
RawAt(c, d) == df.rows[CHOOSE i \in 1..Len(df.rows) : df.rows[i]["dates"] = d][c]

\* C2: every daily row before a column's first known value or after its last
\* known value is still null in the stored series
C2_EdgesStayNull ==
    Stored =>
      \A c \in SignalColumns(df.columns) :
         KnownDates(c) # {} =>
            \A i \in 1..Len(Canonical) :
               (\/ Canonical[i]["dates"] < MinOf(KnownDates(c))
                \/ Canonical[i]["dates"] > MaxOf(KnownDates(c)))
               => IsNaN(Canonical[i][c])

\* C3: a record of at least 2 rows spanning N days is stored as exactly N+1
\* rows, dated day by day from its first to its last date
C3_ContiguousDaily ==
    (Stored /\ Len(df.rows) >= 2) =>
      LET first == MinOf(Dates(df.rows))
          last == MaxOf(Dates(df.rows))
      IN /\ Len(Canonical) = last - first + 1
         /\ \A i \in 1..Len(Canonical) : Canonical[i]["dates"] = first + i - 1

\* C6: a record with neither a ground-truth nor a predicted-value column
\* fails the load and is never in the model store
C6_NoSignalRejected ==
    \A m \in DOMAIN models_data :
       models_data[m].columns \cap NumericColumns # {}

\* C10: in a record of distinct dates, a missing daily value with a known
\* value before and after it is the linear interpolation, by day distance,
\* of the nearest known values on each side; known values are kept
C10_InteriorLinear ==
    (Stored /\ DistinctDates) =>
      \A c \in SignalColumns(df.columns) :
         \A i \in 1..Len(Canonical) :
            LET d == Canonical[i]["dates"]
                earlier == { k \in KnownDates(c) : k < d }
                later == { k \in KnownDates(c) : k > d }
            IN IF d \in KnownDates(c) THEN Canonical[i][c] = RawAt(c, d)
               ELSE (earlier # {} /\ later # {}) =>
                      LET a == MaxOf(earlier)
                          b == MinOf(later)
                      IN /\ ~IsNaN(Canonical[i][c])
                         /\ Val(Canonical[i][c]) * (b - a)
                              = Val(RawAt(c, a)) * (b - d) + Val(RawAt(c, b)) * (d - a)

\* a gap of three days between two different known values has been filled
C10_Witness ==
    /\ Stored
    /\ DistinctDates
    /\ \E c \in SignalColumns(df.columns) :
          \E a \in KnownDates(c), b \in KnownDates(c) :
             /\ b - a = 3
             /\ KnownDates(c) \cap (a + 1)..(b - 1) = {}
             /\ RawAt(c, a) # RawAt(c, b)
             /\ \E i \in 1..Len(Canonical) :
                   /\ Canonical[i]["dates"] = a + 1
                   /\ ~IsNaN(Canonical[i][c])

----------------------------------------------------------------------------
(* Properties of update_graph, read off the figure of the last call *)

ValidRange ==
    /\ 0 <= slider_range[1]
    /\ slider_range[1] <= slider_range[2]
    /\ slider_range[2] < Len(date_list)

Rendered == pc = "rendered"

IsDiagnostic(f) ==
    /\ f.data = <<>>
    /\ f.layout.title # <<>>
    /\ f.layout.title[1].kind = "error"

ActualLines(f) == { i \in 1..Len(f.data) : f.data[i].name = <<"Actual Values">> }

DashedLines(f) == LET IsDashed(t) == t.dash = "dash" IN SelectSeq(f.data, IsDashed)

\* every value drawn by the figure
PlottedValues(f) ==
    UNION { { Val(f.data[i].y[j]) : j \in { k \in 1..Len(f.data[i].y) : ~IsNaN(f.data[i].y[k]) } } :
            i \in 1..Len(f.data) }

\* the rows of a stored model inside the selected window
InWindowRows(m) ==
    LET InWindow(r) == /\ r["dates"] >= date_list[slider_range[1] + 1]
                       /\ r["dates"] <= date_list[slider_range[2] + 1]
    IN SelectSeq(models_data[m].rows, InWindow)

\* the model has a non-null groundtruth value inside the window
CarriesGroundTruth(m) ==
    /\ "groundtruth" \in models_data[m].columns
    /\ \E i \in 1..Len(InWindowRows(m)) : ~IsNaN(InWindowRows(m)[i]["groundtruth"])

HasPredicted(m) ==
    models_data[m].columns \cap {"predictions", "predicted values"} # {}

\* C1: the chart has at most one line labelled "Actual Values", whatever the
\* selection and the range
C1_OneActualLine == Rendered => Cardinality(ActualLines(fig)) <= 1

\* two different selected models carry ground truth in the window, one line
C1_Witness ==
    /\ Rendered
    /\ ValidRange
    /\ \E i, j \in 1..Len(selected_models) :
          /\ selected_models[i] # selected_models[j]
          /\ CarriesGroundTruth(selected_models[i])
          /\ CarriesGroundTruth(selected_models[j])
    /\ Cardinality(ActualLines(fig)) = 1

\* C4: when values are plotted, the y axis starts at 0, ticks every 2000 and
\* ends at the smallest multiple of 2000 strictly above the largest value
C4_AxisQuantised ==
    (Rendered /\ PlottedValues(fig) # {}) =>
      /\ fig.layout.yaxis # <<>>
      /\ LET axis == fig.layout.yaxis[1]
             top == MaxOf(PlottedValues(fig))
         IN /\ axis.range[1] = 0
            /\ axis.dtick = 2000 * Scale
            /\ axis.range[2] % (2000 * Scale) = 0
            /\ axis.range[2] > top
            /\ axis.range[2] - 2000 * Scale <= top

\* the largest plotted value is 2000 and the axis ends at 4000
C4_Witness ==
    /\ Rendered
    /\ PlottedValues(fig) # {}
    /\ MaxOf(PlottedValues(fig)) = 2000 * Scale
    /\ fig.layout.yaxis # <<>>
    /\ fig.layout.yaxis[1].range = <<0, 4000 * Scale>>

\* C5: range indices violating 0 <= startIndex <= endIndex < len(dateIndex)
\* always give the diagnostic chart
C5_InvalidRangeDiagnostic == (Rendered /\ ~ValidRange) => IsDiagnostic(fig)

\* C7: an empty selection with a valid range gives a normal chart without
\* lines and without axis configuration
C7_EmptySelection ==
    (Rendered /\ selected_models = <<>> /\ ValidRange) =>
      /\ fig.data = <<>>
      /\ fig.layout.yaxis = <<>>
      /\ ~IsDiagnostic(fig)

\* the callback returns from a call with an empty selection and a window of
\* several days
C7_Witness ==
    /\ Rendered
    /\ selected_models = <<>>
    /\ ValidRange
    /\ slider_range[1] < slider_range[2]
    /\ fig.data = <<>>
    /\ fig.layout.title = <<>>

\* C8: the ground-truth line comes from the first selected model with a
\* non-null groundtruth value inside the window; without such a model there
\* is no ground-truth line
C8_FirstCarrier ==
    (Rendered /\ ValidRange) =>
      LET carriers == { k \in 1..Len(selected_models) :
                          CarriesGroundTruth(selected_models[k]) }
      IN IF carriers = {} THEN ActualLines(fig) = {}
         ELSE LET rows == InWindowRows(selected_models[MinOf(carriers)])
              IN \E i \in 1..Len(fig.data) :
                    /\ ActualLines(fig) = {i}
                    /\ fig.data[i].x = Column(rows, "dates")
                    /\ fig.data[i].y = Column(rows, "groundtruth")

\* C9 as stated: one dashed line per selected model, in selection order
C9_DashedPerSelected ==
    (Rendered /\ ValidRange) =>
      /\ Len(DashedLines(fig)) = Len(selected_models)
      /\ \A k \in 1..Len(selected_models) :
            DashedLines(fig)[k].name = DisplayName(selected_models[k])

\* C9 amended: one dashed line per selected model that has a predicted-value
\* column under either alias, in selection order, drawn from that column
\* inside the window; a selected model without such a column has none
C9_DashedPerPredicted ==
    (Rendered /\ ValidRange) =>
      LET IsPredicted(m) == HasPredicted(m)
          with == SelectSeq(selected_models, IsPredicted)
      IN /\ Len(DashedLines(fig)) = Len(with)
         /\ \A k \in 1..Len(with) :
               LET rows == InWindowRows(with[k])
                   col == IF "predictions" \in models_data[with[k]].columns
                          THEN "predictions" ELSE "predicted values"
               IN /\ DashedLines(fig)[k].name = DisplayName(with[k])
                  /\ DashedLines(fig)[k].x = Column(rows, "dates")
                  /\ DashedLines(fig)[k].y = Column(rows, col)

\* a model without predicted values is selected before one that has them
\* under the second alias, next to its ground truth
C9_Witness ==
    /\ Rendered
    /\ ValidRange
    /\ Len(selected_models) = 2
    /\ ~HasPredicted(selected_models[1])
    /\ models_data[selected_models[2]].columns = {"groundtruth", "predicted values"}
    /\ Len(DashedLines(fig)) = 1
    /\ Cardinality(ActualLines(fig)) = 1

====
